---- MODULE Spec2Model ----
(***************************************************************************)
(* The gimli symbolizer of backtrace-rs (src/src/symbolize/gimli.rs):      *)
(* the library inventory, the translation of a runtime address to a        *)
(* library and a file coordinate, the bounded most-recently-used cache of  *)
(* per-library mappings, and resolve() with its symbol-table fallback.     *)
(*                                                                         *)
(* Rust indexes from 0, TLA+ sequences from 1: library index i and cache   *)
(* position p of the source are positions i+1 and p+1 here, so "position   *)
(* 0" of the cache is mappings[1].                                         *)
(* Option<T> is a sequence: None is <<>>, Some(x) is <<x>>.                *)
(***************************************************************************)
EXTENDS Integers, Sequences, FiniteSets, TLC

\* Width of usize in bits; addresses are 0 .. Modulus-1.
WordBits == 4
Modulus == 2 ^ WordBits

\* const MAPPINGS_CACHE_SIZE: usize = 4;
MAPPINGS_CACHE_SIZE == 4

VARIABLES
    overflow_checks, \* build profile: TRUE panics on usize overflow (debug), FALSE wraps (release)
    loaded,          \* what native_libraries() reports for this process
    cache_some,      \* MAPPINGS_CACHE is Some(..)
    libraries,       \* Cache.libraries
    mappings,        \* Cache.mappings, most recently used first
    crashed,         \* a panic unwound out of resolve
    call,            \* what the most recent resolve call did
    streak,          \* the libraries built since the last clear, while each was new
    restored,        \* the files that became sound after the process started
    failed,          \* the libraries whose build failed since the last clear,
                     \* among those whose file can still be put right
    pc,              \* where the call in progress is: "idle" between calls,
                     \* "frames" inside resolve once it holds a Context
    pending,         \* the frames the loop of that resolve has still to hand over
    recent,          \* the libraries mapping_for_lib returned a Context for since
                     \* the last clear, each once, the most recent first
    images,          \* Mach-O: the images dyld reports, in index order
    next_image,      \* Mach-O: the loop variable i of native_libraries
    ret,             \* Mach-O: the Vec<Library> native_libraries is filling
    scan,            \* Mach-O: "off", "scanning", "returned" or "panicked"
    last             \* Mach-O: what the most recent native_library(i) gave

\* The variables of the Mach-O enumeration, and those of the cache.
macho_vars == <<images, next_image, ret, scan, last>>

cache_vars == <<loaded, cache_some, libraries, mappings,
                crashed, call, streak, restored, failed, pc, pending, recent>>

vars == <<overflow_checks, cache_vars, macho_vars>>

None == <<>>
Some(x) == <<x>>

(***************************************************************************)
(* struct LibrarySegment, struct Library                                   *)
(***************************************************************************)
LibrarySegment(svma, len) ==
    [stated_virtual_memory_address |-> svma, len |-> len]

Library(name, segments, bias) ==
    [name |-> name, segments |-> segments, bias |-> bias]

(***************************************************************************)
(* The files behind the library names.  A file is absent (open fails),     *)
(* carries debug sections the interpreter rejects at construction          *)
(* ("bad_dwarf"), carries debug sections that fail during queries          *)
(* ("partial"), carries no debug sections ("stripped", and "nosym" without *)
(* a symbol table as well), or is sound ("good").  The file system is read *)
(* at every File::open: a file in `restored` has been put right since the  *)
(* process started.                                                        *)
(***************************************************************************)
\* The files that can be put right while the process runs.
Restorable == {"libgone"}

Disk(name) ==
    CASE name \in restored -> "good"
      [] name = "app"      -> "good"
      [] name = "libinl"   -> "good"
      [] name = "libstrip" -> "stripped"
      [] name = "libnosym" -> "nosym"
      [] name = "libpart"  -> "partial"
      [] name = "libbad"   -> "bad_dwarf"
      [] OTHER             -> "absent"

(***************************************************************************)
(* Inventories native_libraries() can report.                              *)
(***************************************************************************)
PlainInventory ==
    << Library("app",      << LibrarySegment(1, 2) >>, 0),
       Library("libinl",   << LibrarySegment(1, 1), LibrarySegment(3, 1) >>, 2),
       Library("libstrip", << LibrarySegment(2, 2) >>, 4),
       Library("libpart",  << LibrarySegment(0, 3) >>, 8),
       Library("libbad",   << LibrarySegment(2, 1) >>, 9),
       Library("",         << LibrarySegment(0, 1) >>, 12),
       Library("libnosym", << LibrarySegment(4, 1), LibrarySegment(12, 2) >>, 1) >>

\* A library whose bias + stated address exceeds the word ("negative" bias),
\* and one whose last segment ends exactly at the top of the address space.
WrapInventory ==
    << Library("app",    << LibrarySegment(6, 2) >>, Modulus - 4),
       Library("libinl", << LibrarySegment(Modulus - 2, 2) >>, 0) >>

TopInventory ==
    << Library("app",    << LibrarySegment(1, 2) >>, 0),
       Library("libinl", << LibrarySegment(6, 2) >>, Modulus - 8),
       Library("libstrip", << LibrarySegment(0, 1) >>, 4) >>

Inventories == {PlainInventory, WrapInventory, TopInventory}

\* An inventory with a library whose file is missing when the process starts,
\* and the library a later dlopen adds to what the loader reports.
GoneInventory ==
    << Library("app",      << LibrarySegment(1, 2) >>, 0),
       Library("libinl",   << LibrarySegment(1, 1), LibrarySegment(3, 1) >>, 2),
       Library("libgone",  << LibrarySegment(2, 1) >>, 9) >>

LateLibrary == Library("libnosym", << LibrarySegment(12, 2) >>, 1)

native_libraries == loaded

\* No native_library call has been made.
NoImage == [valid |-> FALSE, image |-> <<>>, tag |-> "None", lib |-> <<>>]

(***************************************************************************)
(* Cache::avma_to_svma.  The sums are usize sums: with overflow checks a   *)
(* sum past the word panics, without them it wraps.                        *)
(***************************************************************************)
\* The closure with the end of the segment taken as part of it.
SegmentContainsOffByOne(s, bias, address) ==
    LET svma  == s.stated_virtual_memory_address
        sum1  == svma + bias
        start == sum1 % Modulus
        sum2  == start + s.len
        end   == sum2 % Modulus
    IN  IF overflow_checks /\ (sum1 >= Modulus \/ sum2 >= Modulus) THEN "panic"
        ELSE IF start <= address /\ address <= end THEN "yes"
        ELSE "no"

\* The closure given to `any`: "yes", "no", or "panic".
SegmentContains(s, bias, address) ==
    LET svma  == s.stated_virtual_memory_address
        sum1  == svma + bias
        start == sum1 % Modulus
        sum2  == start + s.len
        end   == sum2 % Modulus
    IN  IF overflow_checks /\ (sum1 >= Modulus \/ sum2 >= Modulus) THEN "panic"
        ELSE IF start <= address /\ address < end THEN "yes"
        ELSE "no"

\* lib.segments.iter().any(..) from segment k on: stops at the first "yes".
RECURSIVE AnySegment(_, _, _, _)
AnySegment(segments, k, bias, address) ==
    IF k > Len(segments) THEN "no"
    ELSE LET r == SegmentContains(segments[k], bias, address)
         IN  IF r = "no" THEN AnySegment(segments, k + 1, bias, address) ELSE r

\* .enumerate().filter_map(..).next() from library i on.
RECURSIVE ScanLibraries(_, _, _)
ScanLibraries(libs, i, address) ==
    IF i > Len(libs) THEN [tag |-> "None", lib |-> 0, svma |-> 0]
    ELSE LET lib == libs[i]
             r   == AnySegment(lib.segments, 1, lib.bias, address)
         IN  IF r = "panic" THEN [tag |-> "Panic", lib |-> 0, svma |-> 0]
             ELSE IF r = "no" THEN ScanLibraries(libs, i + 1, address)
             ELSE IF overflow_checks /\ address < lib.bias
                  THEN [tag |-> "Panic", lib |-> 0, svma |-> 0]
             ELSE [tag |-> "Some", lib |-> i,
                   svma |-> (address - lib.bias + Modulus) % Modulus]

avma_to_svma(libs, addr) == ScanLibraries(libs, 1, addr)

(***************************************************************************)
(* Building a Mapping: mmap, cx, Mapping::new.                             *)
(***************************************************************************)
\* fn mmap(path): File::open, metadata, Mmap::map; any failure is None.
mmap(path) ==
    IF Disk(path) = "absent" THEN None ELSE Some([file |-> path])

\* fn cx(object): missing sections load as empty; a failure of
\* addr2line::Context::from_sections is None.
cx(object) ==
    IF Disk(object.file) = "bad_dwarf" THEN None
    ELSE Some([dwarf |-> object.file, object |-> object.file])

\* Mapping::new(path): map the file, view it as an object, build the Context.
Mapping_new(path) ==
    LET map == mmap(path)
    IN  IF map = None THEN None
        ELSE LET inner == cx(map[1])
             IN  IF inner = None THEN None
                 ELSE Some([cx |-> inner[1], map |-> map[1]])

(***************************************************************************)
(* The debug-info interpreter and the symbol table, as functions of the    *)
(* file and the probed file coordinate.                                    *)
(***************************************************************************)
\* Innermost frame: function name, file and line.
InnerFrame(file, probe) ==
    [function |-> Some([name |-> <<file, "fn", probe>>]),
     location |-> Some([file |-> Some(<<file, "src">>), line |-> Some(10 + probe)])]

\* The frame it was inlined into: no function name, a file without a line.
OuterFrame(file, probe) ==
    [function |-> None,
     location |-> Some([file |-> Some(<<file, "src">>), line |-> None])]

\* addr2line::Context::find_frames(probe) and the FrameIter it returns:
\* ok = FALSE is Err from find_frames; otherwise next() yields `frames` in
\* order and then Ok(None), or Err when `fails`; `rest` is what next() would
\* yield if it were called again after that Err.
find_frames(dwarf, probe) ==
    LET kind == Disk(dwarf)
        r    == probe % 3
    IN  CASE kind = "good" /\ r = 0 ->
                [ok |-> TRUE, frames |-> <<>>, fails |-> FALSE, rest |-> <<>>]
          [] kind = "good" /\ r = 1 ->
                [ok |-> TRUE, frames |-> <<InnerFrame(dwarf, probe)>>,
                 fails |-> FALSE, rest |-> <<>>]
          [] kind = "good" /\ r = 2 ->
                [ok |-> TRUE,
                 frames |-> <<InnerFrame(dwarf, probe), OuterFrame(dwarf, probe)>>,
                 fails |-> FALSE, rest |-> <<>>]
          [] kind = "partial" /\ r = 0 ->
                [ok |-> FALSE, frames |-> <<>>, fails |-> FALSE, rest |-> <<>>]
          [] kind = "partial" /\ r = 1 ->
                [ok |-> TRUE, frames |-> <<>>, fails |-> TRUE,
                 rest |-> <<OuterFrame(dwarf, probe)>>]
          [] kind = "partial" /\ r = 2 ->
                [ok |-> TRUE, frames |-> <<InnerFrame(dwarf, probe)>>,
                 fails |-> TRUE, rest |-> <<OuterFrame(dwarf, probe)>>]
          [] OTHER -> [ok |-> TRUE, frames |-> <<>>, fails |-> FALSE, rest |-> <<>>]

\* Object::search_symtab(addr): the name of the symbol covering addr, if any.
search_symtab(object, addr) ==
    LET kind == Disk(object)
    IN  CASE kind = "good"     -> Some(<<object, "sym", addr>>)
          [] kind = "partial"  -> IF addr = 1 THEN None ELSE Some(<<object, "sym", addr>>)
          [] kind = "stripped" -> IF addr % 2 = 0 THEN Some(<<object, "sym", addr>>) ELSE None
          [] OTHER             -> None

(***************************************************************************)
(* enum Symbol and its accessors.                                          *)
(***************************************************************************)
SymbolFrame(addr, location, name) ==
    [variant |-> "Frame", addr |-> addr, location |-> location, name |-> name]

SymbolSymtab(addr, name) ==
    [variant |-> "Symtab", addr |-> addr, name |-> name]

Symbol_name(sym) ==
    IF sym.variant = "Frame" THEN sym.name ELSE Some(sym.name)

Symbol_addr(sym) ==
    IF sym.variant = "Frame" THEN Some(sym.addr) ELSE None

Symbol_filename(sym) ==
    IF sym.variant = "Frame" /\ sym.location # None THEN sym.location[1].file ELSE None

Symbol_lineno(sym) ==
    IF sym.variant = "Frame" /\ sym.location # None THEN sym.location[1].line ELSE None

(***************************************************************************)
(* Cache::mapping_for_lib.  A cache entry (usize, Mapping) is the record   *)
(* [idx, mapping].                                                         *)
(***************************************************************************)
\* A lookup that only looks at the front entry.
PositionFrontOnly(maps, lib, k) ==
    IF maps # <<>> /\ maps[1].idx = lib THEN 1 ELSE 0

\* A lookup that never finds the entry.
PositionNever(maps, lib, k) == 0

\* self.mappings.iter().position(|(idx, _)| *idx == lib), from position k on;
\* 0 when there is none.
RECURSIVE Position(_, _, _)
Position(maps, lib, k) ==
    IF k > Len(maps) THEN 0
    ELSE IF maps[k].idx = lib THEN k
    ELSE Position(maps, lib, k + 1)

\* Vec::remove(k)
Remove(seq, k) == SubSeq(seq, 1, k - 1) \o SubSeq(seq, k + 1, Len(seq))

\* A hit that swaps the entry with the front entry.
PromoteSwap(maps, k) ==
    [j \in 1 .. Len(maps) |->
        IF j = 1 THEN maps[k] ELSE IF j = k THEN maps[1] ELSE maps[j]]

\* A hit that leaves the entry where it found it.
PromoteNoMove(maps, k) == maps

\* A hit that moves the entry to the tail.
PromoteToBack(maps, k) ==
    SubSeq(maps, 1, k - 1) \o SubSeq(maps, k + 1, Len(maps)) \o <<maps[k]>>

\* let entry = self.mappings.remove(idx); self.mappings.insert(0, entry);
Promote(maps, k) ==
    IF k # 1 THEN <<maps[k]>> \o Remove(maps, k) ELSE maps

\* An insert that evicts the most recently used entry instead of the tail.
InsertEvictsHead(maps, lib, mapping) ==
    <<[idx |-> lib, mapping |-> mapping]>>
        \o (IF Len(maps) = MAPPINGS_CACHE_SIZE THEN Tail(maps) ELSE maps)

\* An insert that never evicts.
InsertNoEvict(maps, lib, mapping) ==
    <<[idx |-> lib, mapping |-> mapping]>> \o maps

\* An insert that puts the new entry behind the front entry.
InsertBehindFront(maps, lib, mapping) ==
    LET kept == IF Len(maps) = MAPPINGS_CACHE_SIZE
                THEN SubSeq(maps, 1, Len(maps) - 1) ELSE maps
    IN  IF kept = <<>> THEN <<[idx |-> lib, mapping |-> mapping]>>
        ELSE <<kept[1], [idx |-> lib, mapping |-> mapping]>> \o Tail(kept)

\* An insert that pushes the new entry at the tail.
InsertAtBack(maps, lib, mapping) ==
    (IF Len(maps) = MAPPINGS_CACHE_SIZE
     THEN SubSeq(maps, 1, Len(maps) - 1)
     ELSE maps) \o <<[idx |-> lib, mapping |-> mapping]>>

\* if self.mappings.len() == MAPPINGS_CACHE_SIZE { self.mappings.pop(); }
\* self.mappings.insert(0, (lib, mapping));
Insert(maps, lib, mapping) ==
    <<[idx |-> lib, mapping |-> mapping]>>
        \o (IF Len(maps) = MAPPINGS_CACHE_SIZE
            THEN SubSeq(maps, 1, Len(maps) - 1)
            ELSE maps)

\* A miss that does not return when the build fails and hands out the
\* Context of whatever entry is at the front.
mapping_for_lib_NoEarlyReturn(maps, libs, lib) ==
    LET idx == Position(maps, lib, 1)
    IN  IF idx # 0
        THEN LET after == Promote(maps, idx)
             IN  [mappings |-> after, cx |-> Some(after[1].mapping.cx),
                  found |-> idx, built |-> FALSE]
        ELSE LET mapping == Mapping_new(libs[lib].name)
             IN  IF mapping = None
                 THEN [mappings |-> maps,
                       cx |-> IF maps = <<>> THEN None ELSE Some(maps[1].mapping.cx),
                       found |-> 0, built |-> FALSE]
                 ELSE LET after == Insert(maps, lib, mapping[1])
                      IN  [mappings |-> after, cx |-> Some(after[1].mapping.cx),
                           found |-> 0, built |-> TRUE]

\* A miss that makes room in a full cache before it knows that the build
\* succeeds.
mapping_for_lib_EvictsFirst(maps, libs, lib) ==
    LET idx == Position(maps, lib, 1)
    IN  IF idx # 0
        THEN LET after == Promote(maps, idx)
             IN  [mappings |-> after, cx |-> Some(after[1].mapping.cx),
                  found |-> idx, built |-> FALSE]
        ELSE LET mapping == Mapping_new(libs[lib].name)
                 room    == IF Len(maps) = MAPPINGS_CACHE_SIZE
                            THEN SubSeq(maps, 1, Len(maps) - 1) ELSE maps
             IN  IF mapping = None
                 THEN [mappings |-> room, cx |-> None, found |-> 0, built |-> FALSE]
                 ELSE LET after == <<[idx |-> lib, mapping |-> mapping[1]]>> \o room
                      IN  [mappings |-> after, cx |-> Some(after[1].mapping.cx),
                           found |-> 0, built |-> TRUE]

\* The whole function: the cache it leaves, the Context it returns (None on
\* the early return), where it found the entry, and whether it built one.
mapping_for_lib(maps, libs, lib) ==
    LET idx == Position(maps, lib, 1)
    IN  IF idx # 0
        THEN LET after == Promote(maps, idx)
             IN  [mappings |-> after, cx |-> Some(after[1].mapping.cx),
                  found |-> idx, built |-> FALSE]
        ELSE LET mapping == Mapping_new(libs[lib].name)
             IN  IF mapping = None
                 THEN [mappings |-> maps, cx |-> None, found |-> 0, built |-> FALSE]
                 ELSE LET after == Insert(maps, lib, mapping[1])
                      IN  [mappings |-> after, cx |-> Some(after[1].mapping.cx),
                           found |-> 0, built |-> TRUE]

(***************************************************************************)
(* resolve: the closure run on the cache.                                  *)
(***************************************************************************)
\* A loop that hands the frames over outermost first.
DeliveredOutermostFirst(context, addr) ==
    LET q == find_frames(context.dwarf, addr)
    IN  IF q.ok THEN [k \in 1 .. Len(q.frames) |-> q.frames[Len(q.frames) + 1 - k]]
        ELSE <<>>

\* A loop that skips an Err of next() and goes on with the frames after it.
DeliveredPastFailure(context, addr) ==
    LET q == find_frames(context.dwarf, addr)
    IN  IF q.ok THEN q.frames \o q.rest ELSE <<>>

\* The frames the `while let Ok(Some(frame)) = frames.next()` loop sees: it
\* ends at the first Ok(None) or Err.
Delivered(context, addr) ==
    LET q == find_frames(context.dwarf, addr)
    IN  IF q.ok THEN q.frames ELSE <<>>

\* call(Symbol::Frame { addr, location: frame.location,
\*                      name: frame.function.map(|f| f.name.slice()) })
FrameSymbol(addr, frame) ==
    SymbolFrame(addr, frame.location,
                IF frame.function = None THEN None ELSE Some(frame.function[1].name))

\* A fallback that is not guarded by any_frames.
FallbackAlways(context, addr, any_frames) ==
    LET name == search_symtab(context.object, addr)
    IN  IF name = None THEN <<>> ELSE <<SymbolSymtab(addr, name[1])>>

\* A fallback that reports the symbol-table name as a frame.
FallbackAsFrame(context, addr, any_frames) ==
    IF any_frames THEN <<>>
    ELSE LET name == search_symtab(context.object, addr)
         IN  IF name = None THEN <<>>
             ELSE <<SymbolFrame(addr, None, Some(name[1]))>>

\* if !any_frames { if let Some(name) = search_symtab(addr) { call(Symtab) } }
Fallback(context, addr, any_frames) ==
    IF any_frames THEN <<>>
    ELSE LET name == search_symtab(context.object, addr)
         IN  IF name = None THEN <<>> ELSE <<SymbolSymtab(addr, name[1])>>

\* The symbols handed to the callback, in order, once a Context is at hand.
Symbolize(context, addr) ==
    LET frames == Delivered(context, addr)
    IN  [k \in 1 .. Len(frames) |-> FrameSymbol(addr, frames[k])]
            \o Fallback(context, addr, Len(frames) > 0)

NoCall ==
    [valid |-> FALSE, addr |-> 0, tag |-> "None", lib |-> 0, svma |-> 0,
     found |-> 0, built |-> FALSE, len_before |-> 0, cx |-> None,
     query |-> [ok |-> TRUE, frames |-> <<>>, fails |-> FALSE, rest |-> <<>>],
     out |-> <<>>, cleared |-> FALSE, again |-> "no"]

\* What resolve(address) does on a cache holding libs and maps.
Resolution(libs, maps, address) ==
    LET t == avma_to_svma(libs, address)
        base == [NoCall EXCEPT !.valid = TRUE, !.addr = address, !.tag = t.tag,
                               !.lib = t.lib, !.svma = t.svma,
                               !.len_before = Len(maps)]
    IN  IF t.tag # "Some"
        THEN [mappings |-> maps, rec |-> base]
        ELSE LET m == mapping_for_lib(maps, libs, t.lib)
             IN  IF m.cx = None
                 THEN [mappings |-> m.mappings, rec |-> base]
                 ELSE [mappings |-> m.mappings,
                       rec |-> [base EXCEPT !.found = m.found, !.built = m.built,
                                            !.cx = m.cx,
                                            !.query = find_frames(m.cx[1].dwarf, t.svma),
                                            !.out = Symbolize(m.cx[1], t.svma)]]

(***************************************************************************)
(* The process.                                                            *)
(***************************************************************************)
Broken == <<0>>

Init ==
    /\ overflow_checks \in BOOLEAN
    /\ loaded \in Inventories
    /\ cache_some = FALSE
    /\ libraries = <<>>
    /\ mappings = <<>>
    /\ crashed = FALSE
    /\ call = NoCall
    /\ streak = <<>>
    /\ restored = {}
    /\ failed = {}
    /\ pc = "idle"
    /\ pending = <<>>
    /\ recent = <<>>
    /\ images = <<>>
    /\ next_image = 0
    /\ ret = <<>>
    /\ scan = "off"
    /\ last = NoImage

\* A with_global that asks the loader for the libraries at every call.
with_global_rescans ==
    [libraries |-> native_libraries,
     mappings |-> IF cache_some THEN mappings ELSE <<>>]

\* Cache::with_global: MAPPINGS_CACHE.get_or_insert_with(|| Cache::new())
with_global ==
    IF cache_some THEN [libraries |-> libraries, mappings |-> mappings]
    ELSE [libraries |-> native_libraries, mappings |-> <<>>]

\* How this call follows the one before it: on the same address, with or
\* without a clear in between, or not.
Again(address) ==
    IF call.valid /\ call.addr = address
    THEN (IF call.cleared THEN "after_clear" ELSE "same")
    ELSE "no"

\* The libraries built one after the other since the last clear, as long as
\* every mapping_for_lib that returned a Context built a library not built
\* before; Broken from the first call that did not, and past capacity + 1.
StreakAfter(rec) ==
    IF rec.cx = None THEN streak
    ELSE IF streak = Broken \/ ~rec.built
            \/ Len(streak) > MAPPINGS_CACHE_SIZE
            \/ \E k \in 1 .. Len(streak) : streak[k] = rec.lib
         THEN Broken
    ELSE Append(streak, rec.lib)

\* The libraries whose Mapping::new failed since the last clear; a library
\* whose file stays as it is for the whole run is not recorded.
FailedAfter(libs, rec) ==
    IF rec.tag = "Some" /\ rec.cx = None /\ libs[rec.lib].name \in Restorable
    THEN failed \cup {rec.lib}
    ELSE failed

\* The libraries a Context was returned for since the last clear, each
\* once, the most recently returned first.
RecentAfter(rec) ==
    IF rec.cx = None THEN recent
    ELSE <<rec.lib>> \o SelectSeq(recent, LAMBDA i : i # rec.lib)

resolve(address) ==
    /\ pc = "idle"
    /\ ~crashed
    /\ \E cache \in {with_global} :
        \E r \in {Resolution(cache.libraries, cache.mappings, address)} :
           /\ cache_some' = TRUE
           /\ libraries' = cache.libraries
           /\ mappings' = r.mappings
           /\ crashed' = (r.rec.tag = "Panic")
           /\ call' = [r.rec EXCEPT !.again = Again(address)]
           /\ streak' = StreakAfter(r.rec)
           /\ failed' = FailedAfter(cache.libraries, r.rec)
           /\ recent' = RecentAfter(r.rec)
    /\ UNCHANGED <<overflow_checks, loaded, restored, pc, pending, macho_vars>>

\* A clear that drops the whole Cache, the inventory with it.
clear_drops_cache ==
    /\ pc = "idle"
    /\ ~crashed
    /\ cache_some' = FALSE
    /\ libraries' = <<>>
    /\ mappings' = <<>>
    /\ call' = IF call.valid THEN [call EXCEPT !.cleared = TRUE] ELSE call
    /\ streak' = <<>>
    /\ failed' = {}
    /\ recent' = <<>>
    /\ UNCHANGED <<overflow_checks, loaded, crashed, restored, pc, pending, macho_vars>>

clear_symbol_cache ==
    /\ pc = "idle"
    /\ ~crashed
    /\ LET cache == with_global
       IN  /\ cache_some' = TRUE
           /\ libraries' = cache.libraries
           /\ mappings' = <<>>
    /\ call' = IF call.valid THEN [call EXCEPT !.cleared = TRUE] ELSE call
    /\ streak' = <<>>
    /\ failed' = {}
    /\ recent' = <<>>
    /\ UNCHANGED <<overflow_checks, loaded, crashed, restored, pc, pending, macho_vars>>

Next ==
    \/ \E address \in 0 .. Modulus - 1 : resolve(address)
    \/ clear_symbol_cache

Spec == Init /\ [][Next]_vars

(***************************************************************************)
(* The process in an environment that changes while it runs: a missing     *)
(* file is put in place, the loader loads one more library.                *)
(***************************************************************************)
InitEnv ==
    /\ overflow_checks \in BOOLEAN
    /\ loaded = GoneInventory
    /\ cache_some = FALSE
    /\ libraries = <<>>
    /\ mappings = <<>>
    /\ crashed = FALSE
    /\ call = NoCall
    /\ streak = <<>>
    /\ restored = {}
    /\ failed = {}
    /\ pc = "idle"
    /\ pending = <<>>
    /\ recent = <<>>
    /\ images = <<>>
    /\ next_image = 0
    /\ ret = <<>>
    /\ scan = "off"
    /\ last = NoImage

\* The file `name` appears on disk, sound; File::open of mmap() sees it from
\* the next call on.
restore_file(name) ==
    /\ name \notin restored
    /\ restored' = restored \cup {name}
    /\ UNCHANGED <<overflow_checks, loaded, cache_some, libraries, mappings,
                   crashed, call, streak, recent, failed, pc, pending, macho_vars>>

\* The loader maps one more library: dl_iterate_phdr would report it from now
\* on.
dlopen ==
    /\ loaded = GoneInventory
    /\ loaded' = Append(loaded, LateLibrary)
    /\ UNCHANGED <<overflow_checks, cache_some, libraries, mappings,
                   crashed, call, streak, recent, restored, failed, pc, pending, macho_vars>>

NextEnv ==
    \/ \E address \in 0 .. Modulus - 1 : resolve(address)
    \/ clear_symbol_cache
    \/ \E name \in Restorable : restore_file(name)
    \/ dlopen

SpecEnv == InitEnv /\ [][NextEnv]_vars

(***************************************************************************)
(* resolve in steps: the call up to the Context it obtains, one step for   *)
(* each turn of the frame loop, and the end of the closure.  Calls are     *)
(* serialized and the callback does not call back in (the functions are    *)
(* unsafe for that reason), so nothing else runs while pc = "frames".      *)
(***************************************************************************)
InitSteps ==
    /\ overflow_checks \in BOOLEAN
    /\ loaded \in Inventories
    /\ cache_some = FALSE
    /\ libraries = <<>>
    /\ mappings = <<>>
    /\ crashed = FALSE
    /\ call = NoCall
    /\ streak = <<>>
    /\ restored = {}
    /\ failed = {}
    /\ pc = "idle"
    /\ pending = <<>>
    /\ recent = <<>>
    /\ images = <<>>
    /\ next_image = 0
    /\ ret = <<>>
    /\ scan = "off"
    /\ last = NoImage

\* with_global, avma_to_svma and mapping_for_lib: the call returns at once
\* when either gives None, and holds a Context otherwise.
resolve_enter(address) ==
    /\ pc = "idle"
    /\ ~crashed
    /\ \E cache \in {with_global} :
        \E t \in {avma_to_svma(cache.libraries, address)} :
        \E m \in {IF t.tag = "Some"
                  THEN mapping_for_lib(cache.mappings, cache.libraries, t.lib)
                  ELSE [mappings |-> cache.mappings, cx |-> None,
                        found |-> 0, built |-> FALSE]} :
           LET base == [NoCall EXCEPT !.valid = TRUE, !.addr = address,
                                      !.tag = t.tag, !.lib = t.lib, !.svma = t.svma,
                                      !.len_before = Len(cache.mappings)]
           IN  /\ cache_some' = TRUE
               /\ libraries' = cache.libraries
               /\ mappings' = m.mappings
               /\ crashed' = (t.tag = "Panic")
               /\ IF m.cx = None
                  THEN /\ call' = base
                       /\ pc' = "idle"
                       /\ pending' = <<>>
                  ELSE /\ call' = [base EXCEPT !.found = m.found, !.built = m.built,
                                               !.cx = m.cx,
                                               !.query = find_frames(m.cx[1].dwarf, t.svma)]
                       /\ pc' = "frames"
                       /\ pending' = Delivered(m.cx[1], t.svma)
    /\ UNCHANGED <<overflow_checks, loaded, streak, recent, restored, failed, macho_vars>>

\* One turn of `while let Ok(Some(frame)) = frames.next()`: the callback gets
\* the frame.
resolve_frame ==
    /\ pc = "frames"
    /\ pending # <<>>
    /\ call' = [call EXCEPT !.out = Append(@, FrameSymbol(call.svma, Head(pending)))]
    /\ pending' = Tail(pending)
    /\ UNCHANGED <<overflow_checks, loaded, cache_some, libraries, mappings,
                   crashed, streak, recent, restored, failed, pc, macho_vars>>

\* The loop is over: the symbol-table fallback, and the closure returns.
resolve_leave ==
    /\ pc = "frames"
    /\ pending = <<>>
    /\ call' = [call EXCEPT !.out = @ \o Fallback(call.cx[1], call.svma, Len(@) > 0)]
    /\ pc' = "idle"
    /\ UNCHANGED <<overflow_checks, loaded, cache_some, libraries, mappings,
                   crashed, streak, recent, restored, failed, pending, macho_vars>>

NextSteps ==
    \/ \E address \in 0 .. Modulus - 1 : resolve_enter(address)
    \/ resolve_frame
    \/ resolve_leave
    \/ clear_symbol_cache

SpecSteps == InitSteps /\ [][NextSteps]_vars

(***************************************************************************)
(* macOS: native_libraries and native_library(i).  An image is what dyld   *)
(* gives for one index: the name pointer, the header (None when null) with *)
(* its magic and its load commands (None when object cannot read them),    *)
(* and the vmaddr slide.  A load command is a segment command, another     *)
(* command, a segment command object rejects, or one that cannot be read.  *)
(***************************************************************************)
\* The most images dyld reports.
MaxImages == 2

Segment(name, fileoff, filesize, vmaddr, vmsize) ==
    [kind |-> "segment", name |-> name, fileoff |-> fileoff,
     filesize |-> filesize, vmaddr |-> vmaddr, vmsize |-> vmsize]

OtherCommand      == [kind |-> "other"]
BadSegmentCommand == [kind |-> "bad_segment"]
UnreadableCommand == [kind |-> "unreadable"]

Header(magic, commands) == Some([magic |-> magic, commands |-> commands])

Image(name, header, slide) == [name |-> name, header |-> header, slide |-> slide]

\* The images the enumeration is run on.
ImageKinds ==
    { \* an executable: __PAGEZERO, then __TEXT at file offset 0
      Image(Some("app"),
            Header("MH_MAGIC_64",
                   Some(<< Segment("__PAGEZERO", 0, 0, 0, 4),
                           Segment("__TEXT", 0, 4, 4, 2),
                           Segment("__DATA", 4, 2, 6, 2),
                           OtherCommand >>)), 1),
      \* a library whose __TEXT is not at file offset 0
      Image(Some("libinl"),
            Header("MH_MAGIC",
                   Some(<< Segment("__TEXT", 3, 2, 2, 2),
                           Segment("__DATA", 6, 1, 5, 1) >>)), 4),
      \* __TEXT at file offset 0 with no bytes in the file
      Image(Some("libpart"),
            Header("MH_MAGIC_64",
                   Some(<< Segment("__TEXT", 0, 0, 1, 2) >>)), 3),
      \* two segments named __TEXT
      Image(Some("libstrip"),
            Header("MH_MAGIC_64",
                   Some(<< Segment("__TEXT", 2, 1, 2, 1),
                           Segment("__TEXT", 5, 1, 5, 1) >>)), 0),
      \* segments, none named __TEXT
      Image(Some("libnosym"),
            Header("MH_MAGIC_64",
                   Some(<< Segment("__DATA", 1, 1, 3, 2) >>)), 2),
      \* no segment command at all
      Image(Some("libbad"),
            Header("MH_MAGIC_64", Some(<< OtherCommand >>)), 0),
      \* a segment lower than __TEXT, and a slide near the top of the word
      Image(Some("libgone"),
            Header("MH_MAGIC_64",
                   Some(<< Segment("__DATA", 1, 1, 1, 1),
                           Segment("__TEXT", 2, 1, 3, 1) >>)), Modulus - 2),
      \* a size that does not fit usize
      Image(Some("wide"),
            Header("MH_MAGIC_64",
                   Some(<< Segment("__TEXT", 0, 1, 0, Modulus) >>)), 0),
      \* commands that fail while they are read
      Image(Some("cut"),
            Header("MH_MAGIC",
                   Some(<< Segment("__TEXT", 0, 1, 0, 1), UnreadableCommand >>)), 0),
      Image(Some("badseg"),
            Header("MH_MAGIC",
                   Some(<< Segment("__TEXT", 0, 1, 0, 1), BadSegmentCommand >>)), 0),
      Image(Some("nocmds"), Header("MH_MAGIC_64", None), 0),
      Image(Some("magic"), Header("other", Some(<< >>)), 0),
      Image(Some("nohdr"), None, 0),
      Image(None, None, 0) }

\* u64 .try_into() to usize
TryInto(v) == IF v < Modulus THEN Some(v) ELSE None

\* The `while let Some(cmd) = load_commands.next().ok()?` loop from command k
\* on: ok = FALSE when a `?` returned None from native_library.
RECURSIVE LoadCommands(_, _, _, _, _)
LoadCommands(cmds, k, segments, first_text, text_fileoff_zero) ==
    IF k > Len(cmds)
    THEN [ok |-> TRUE, segments |-> segments, first_text |-> first_text,
          text_fileoff_zero |-> text_fileoff_zero]
    ELSE LET cmd == cmds[k]
             failed_read == [ok |-> FALSE, segments |-> segments,
                             first_text |-> first_text,
                             text_fileoff_zero |-> text_fileoff_zero]
         IN  IF cmd.kind \in {"unreadable", "bad_segment"} THEN failed_read
             ELSE IF cmd.kind = "other"
                  THEN LoadCommands(cmds, k + 1, segments, first_text, text_fileoff_zero)
             ELSE LET text == (cmd.name = "__TEXT")
                      len  == TryInto(cmd.vmsize)
                      svma == TryInto(cmd.vmaddr)
                  IN  IF len = None \/ svma = None THEN failed_read
                      ELSE LoadCommands(cmds, k + 1,
                               Append(segments, LibrarySegment(svma[1], len[1])),
                               IF text THEN Len(segments) ELSE first_text,
                               text_fileoff_zero
                                  \/ (text /\ cmd.fileoff = 0 /\ cmd.filesize > 0))

\* fn native_library(i): Some(Library), None, or a panic.
native_library(image) ==
    LET none  == [tag |-> "None", lib |-> <<>>]
        panic == [tag |-> "Panic", lib |-> <<>>]
    IN  IF image.name = None THEN none
        ELSE IF image.header = None THEN none
        ELSE IF image.header[1].magic \notin {"MH_MAGIC", "MH_MAGIC_64"} THEN none
        ELSE IF image.header[1].commands = None THEN none
        ELSE LET c == LoadCommands(image.header[1].commands[1], 1, <<>>, 0, FALSE)
             IN  IF ~c.ok THEN none
                 ELSE IF c.text_fileoff_zero
                      THEN [tag |-> "Some",
                            lib |-> Library(image.name[1], c.segments, image.slide)]
                 \* segments[first_text]: first_text is 0-based
                 ELSE IF c.first_text >= Len(c.segments) THEN panic
                 ELSE LET adjust == c.segments[c.first_text + 1].stated_virtual_memory_address
                          under  == \E k \in 1 .. Len(c.segments) :
                                       c.segments[k].stated_virtual_memory_address < adjust
                          over   == image.slide + adjust >= Modulus
                      IN  IF overflow_checks /\ (under \/ over) THEN panic
                          ELSE [tag |-> "Some",
                                lib |-> Library(image.name[1],
                                    [k \in 1 .. Len(c.segments) |->
                                        LibrarySegment(
                                            (c.segments[k].stated_virtual_memory_address
                                                + Modulus - adjust) % Modulus,
                                            c.segments[k].len)],
                                    (image.slide + adjust) % Modulus)]

\* let images = _dyld_image_count(): up to MaxImages images, of any kinds.
InitMachO ==
    /\ overflow_checks \in BOOLEAN
    /\ loaded = <<>>
    /\ cache_some = FALSE
    /\ libraries = <<>>
    /\ mappings = <<>>
    /\ crashed = FALSE
    /\ call = NoCall
    /\ streak = <<>>
    /\ restored = {}
    /\ failed = {}
    /\ pc = "idle"
    /\ pending = <<>>
    /\ recent = <<>>
    /\ \E n \in 1 .. MaxImages : images \in [1 .. n -> ImageKinds]
    /\ next_image = 0
    /\ ret = <<>>
    /\ scan = "scanning"
    /\ last = NoImage

\* One turn of `for i in 0..images { ret.extend(native_library(i)); }`.
extend_native_library ==
    /\ scan = "scanning"
    /\ next_image < Len(images)
    /\ \E r \in {native_library(images[next_image + 1])} :
          /\ last' = [valid |-> TRUE, image |-> images[next_image + 1],
                      tag |-> r.tag, lib |-> r.lib]
          /\ ret' = IF r.tag = "Some" THEN Append(ret, r.lib) ELSE ret
          /\ scan' = IF r.tag = "Panic" THEN "panicked" ELSE "scanning"
    /\ next_image' = next_image + 1
    /\ UNCHANGED <<overflow_checks, cache_vars, images>>

\* return ret;
return_native_libraries ==
    /\ scan = "scanning"
    /\ next_image = Len(images)
    /\ scan' = "returned"
    /\ UNCHANGED <<overflow_checks, cache_vars, images, next_image, ret, last>>

NextMachO ==
    \/ extend_native_library
    \/ return_native_libraries

SpecMachO == InitMachO /\ [][NextMachO]_vars

(***************************************************************************)
(* Properties.                                                             *)
(***************************************************************************)
\* The (name, file, line) a caller reads off each symbol it was handed.
Tuples(out) ==
    [k \in 1 .. Len(out) |->
        <<Symbol_name(out[k]), Symbol_filename(out[k]), Symbol_lineno(out[k])>>]

\* The step is a resolve call: it leaves a fresh record in `call`.
ResolveStep == call'.valid /\ ~call'.cleared

\* address lies in [bias + stated_address, bias + stated_address + length)
\* of some segment of lib, the sums taken in the integers.
ExactIn(lib, address) ==
    \E k \in 1 .. Len(lib.segments) :
        LET s == lib.segments[k]
        IN  /\ lib.bias + s.stated_virtual_memory_address <= address
            /\ address < lib.bias + s.stated_virtual_memory_address + s.len

\* address is one of the len addresses of some segment of lib, counted from
\* bias + stated_address in machine words (past the top the count goes on
\* from 0).
WrappedIn(lib, address) ==
    \E k \in 1 .. Len(lib.segments) :
        LET s == lib.segments[k]
        IN  \E d \in 0 .. s.len - 1 :
                address = (lib.bias + s.stated_virtual_memory_address + d) % Modulus

StartsFit(libs) ==
    \A i \in 1 .. Len(libs) : \A k \in 1 .. Len(libs[i].segments) :
        libs[i].bias + libs[i].segments[k].stated_virtual_memory_address < Modulus

\* C2, on the inventories whose segments all start inside the address space:
\* avma_to_svma returns (i, address - bias_i) for the lowest library index i
\* that has a segment with bias_i + stated_address <= address <
\* bias_i + stated_address + length, and None exactly when no library has
\* such a segment.
C2_TranslateFirstMatch ==
    (call.valid /\ StartsFit(libraries)) =>
        LET hits == {i \in 1 .. Len(libraries) : ExactIn(libraries[i], call.addr)}
        IN  IF hits = {} THEN call.tag = "None"
            ELSE LET first == CHOOSE i \in hits : \A j \in hits : i <= j
                 IN  /\ call.tag = "Some"
                     /\ call.lib = first
                     /\ call.svma = call.addr - libraries[first].bias

\* C3: after a mapping_for_lib(lib) that returns a Context, on a hit as on a
\* miss, the cache entry at position 0 has library index lib, and the Context
\* returned is the one of that entry and of that library's file.
C3_ReturnedEntryAtFront ==
    (call.valid /\ ~call.cleared /\ call.cx # None) =>
        /\ mappings # <<>>
        /\ mappings[1].idx = call.lib
        /\ call.cx[1] = mappings[1].mapping.cx
        /\ call.cx[1].object = libraries[call.lib].name

\* A hit found its entry behind two others and returned it from the front.
C3_Witness ==
    /\ call.valid /\ ~call.cleared /\ call.cx # None
    /\ call.found = 3
    /\ mappings[1].idx = call.lib

\* C4: a mapping_for_lib for a library index that is already in the cache
\* constructs no Mapping and leaves that same entry at position 0, the cache
\* keeping its length.
C4_HitReusesEntry ==
    [][ (ResolveStep /\ call'.tag = "Some"
            /\ \E k \in 1 .. Len(mappings) : mappings[k].idx = call'.lib)
        => /\ ~call'.built
           /\ call'.cx # None
           /\ Len(mappings') = Len(mappings)
           /\ \E k \in 1 .. Len(mappings) :
                 mappings[k].idx = call'.lib /\ mappings'[1] = mappings[k] ]_vars

\* get_or_build(i), get_or_build(j), get_or_build(i): the last call found i
\* right behind j, built nothing, and i is at position 0.
C4_Witness ==
    /\ call.valid /\ ~call.cleared /\ call.cx # None
    /\ call.found = 2 /\ ~call.built
    /\ Len(mappings) >= 2
    /\ mappings[1].idx = call.lib
    /\ mappings[2].idx # call.lib

\* C5: a successful miss on a cache holding exactly MAPPINGS_CACHE_SIZE
\* entries removes exactly the tail entry and inserts the new one at position
\* 0; and after capacity + 1 distinct libraries were each built once, with no
\* other successful mapping_for_lib since the last clear, the library built
\* first is no longer cached and the cache holds capacity entries.
C5_EvictsTail ==
    /\ [][ (ResolveStep /\ call'.built /\ Len(mappings) = MAPPINGS_CACHE_SIZE)
           => /\ Len(mappings') = MAPPINGS_CACHE_SIZE
              /\ mappings'[1].idx = call'.lib
              /\ \A k \in 1 .. MAPPINGS_CACHE_SIZE - 1 : mappings'[k + 1] = mappings[k]
         ]_vars
    /\ [] ( (streak # Broken /\ Len(streak) = MAPPINGS_CACHE_SIZE + 1) =>
              /\ Len(mappings) = MAPPINGS_CACHE_SIZE
              /\ \A k \in 1 .. Len(mappings) :
                    mappings[k].idx = streak[MAPPINGS_CACHE_SIZE + 2 - k] )

\* capacity + 1 distinct libraries were built, one after the other, and the
\* last build found the cache full.
C5_Witness ==
    /\ streak # Broken /\ Len(streak) = MAPPINGS_CACHE_SIZE + 1
    /\ call.valid /\ ~call.cleared /\ call.built
    /\ call.len_before = MAPPINGS_CACHE_SIZE

\* C6: within one resolve call the symbol-table fallback is used only when
\* the interpreter delivered no frame: once a frame callback was made no
\* symbol-table callback is made, and without a frame at most one callback
\* is made.
C6_FallbackOnlyWithoutFrames ==
    call.valid =>
        LET frames  == {k \in 1 .. Len(call.out) : call.out[k].variant = "Frame"}
            symtabs == {k \in 1 .. Len(call.out) : call.out[k].variant = "Symtab"}
        IN  /\ frames # {} => symtabs = {}
            /\ frames = {} => Len(call.out) <= 1
            /\ Cardinality(symtabs) <= 1

\* Two inlined frames were delivered at a coordinate where the symbol table
\* has a name, and no symbol-table callback followed.
C6_Witness ==
    /\ call.valid /\ call.cx # None
    /\ Len(call.out) = 2
    /\ \A k \in 1 .. 2 : call.out[k].variant = "Frame"
    /\ search_symtab(call.cx[1].object, call.svma) # None

\* C7: when the interpreter yields frames f1..fn (n >= 1) without error for
\* the translated coordinate, resolve invokes the callback exactly n times,
\* the k-th time with the name and location of fk.
C7_FramesInOrder ==
    (call.valid /\ call.cx # None /\ call.query.ok /\ ~call.query.fails
        /\ call.query.frames # <<>>) =>
        /\ Len(call.out) = Len(call.query.frames)
        /\ \A k \in 1 .. Len(call.out) :
              LET f == call.query.frames[k]
              IN  /\ call.out[k].variant = "Frame"
                  /\ call.out[k].addr = call.svma
                  /\ call.out[k].location = f.location
                  /\ call.out[k].name =
                        (IF f.function = None THEN None ELSE Some(f.function[1].name))

\* The interpreter yielded an inlined frame and the frame around it.
C7_Witness ==
    /\ call.valid /\ call.cx # None /\ call.query.ok /\ ~call.query.fails
    /\ Len(call.query.frames) = 2
    /\ call.query.frames[1] # call.query.frames[2]
    /\ Len(call.out) = 2

\* The library's debug data is missing or malformed.
DebugUnusable(name) ==
    Disk(name) \in {"absent", "stripped", "nosym", "bad_dwarf", "partial"}

\* One symbol-table-only callback or none, and no symbol with a location.
SymtabOnlyOrNothing(out) ==
    /\ out = <<>> \/ (Len(out) = 1 /\ out[1].variant = "Symtab")
    /\ \A k \in 1 .. Len(out) :
          Symbol_filename(out[k]) = None /\ Symbol_lineno(out[k]) = None

\* C8 as stated: for every address inside a segment of a library whose debug
\* data is malformed or missing, resolve makes exactly one symbol-table-only
\* callback or none, and never one whose symbol has a location.
C8_BadDebugNeverLocated ==
    (call.valid /\ call.tag = "Some" /\ DebugUnusable(libraries[call.lib].name))
        => SymtabOnlyOrNothing(call.out)

\* C8 as amended: the same, for the addresses at which the interpreter yields
\* no frame before it fails (no Context, a failed query, or a frame sequence
\* that is empty or fails at its first frame).
C8_BadDebugWithoutFrames ==
    (call.valid /\ call.tag = "Some" /\ DebugUnusable(libraries[call.lib].name)
        /\ (call.cx = None \/ ~call.query.ok \/ call.query.frames = <<>>))
        => SymtabOnlyOrNothing(call.out)

\* The query on a library with malformed debug data failed and the symbol
\* table gave the one callback.
C8_Witness ==
    /\ call.valid /\ call.tag = "Some" /\ call.cx # None
    /\ Disk(libraries[call.lib].name) = "partial"
    /\ ~call.query.ok
    /\ Len(call.out) = 1 /\ call.out[1].variant = "Symtab"

\* C9: resolve called twice in a row with the same address, no clear between
\* the two, hands the callback the same sequence of (name, file, line) both
\* times.
C9_RepeatSameOutput ==
    [][ (ResolveStep /\ call.valid /\ ~call.cleared /\ call'.addr = call.addr)
        => Tuples(call'.out) = Tuples(call.out) ]_vars

\* The second of two calls on one address hit the entry the first had built
\* into a full cache, and delivered frames.
C9_Witness ==
    /\ call.valid /\ ~call.cleared
    /\ call.again = "same"
    /\ call.found = 1
    /\ Len(mappings) = MAPPINGS_CACHE_SIZE
    /\ Len(call.out) = 2

\* C10: resolve of an address, then clear_symbol_cache(), then resolve of the
\* same address hands the callback the same sequence as before the clear.
C10_ClearThenSameOutput ==
    [][ (ResolveStep /\ call.valid /\ call.cleared /\ call'.addr = call.addr)
        => call'.out = call.out ]_vars

\* The call after the clear rebuilt the mapping and delivered frames.
C10_Witness ==
    /\ call.valid /\ ~call.cleared
    /\ call.again = "after_clear"
    /\ call.built /\ call.len_before = 0
    /\ call.out # <<>>

\* C11: resolve never raises a fatal error to its caller: for every address
\* and every inventory, the segments whose bias + stated_address or
\* bias + stated_address + length exceeds the machine word included, the call
\* completes, and a failure only means fewer callbacks or none.
C11_NeverPanics ==
    call.valid => (call.tag # "Panic" /\ ~crashed)

\* C13: in every state reachable by resolve and clear_symbol_cache calls the
\* cache holds at most MAPPINGS_CACHE_SIZE entries.
C13_AtMostCapacity ==
    Len(mappings) <= MAPPINGS_CACHE_SIZE

\* A library was built while the cache was full, and the cache is still full.
C13_Witness ==
    /\ call.valid /\ ~call.cleared /\ call.built
    /\ call.len_before = MAPPINGS_CACHE_SIZE
    /\ Len(mappings) = MAPPINGS_CACHE_SIZE
    /\ streak = Broken

\* The symbol-table search of resolve at a file coordinate: one Symtab symbol
\* when the table has a name there, nothing otherwise.
SymtabSearch(context, addr) ==
    IF search_symtab(context.object, addr) = None THEN <<>>
    ELSE <<SymbolSymtab(addr, search_symtab(context.object, addr)[1])>>

\* C14: when the interpreter fails partway through a frame sequence, the
\* frames it produced before the failure, and no frame after it, are the ones
\* delivered; when a failure or an empty result comes before any frame,
\* resolve goes on to the symbol-table search.
C14_PartialFailure ==
    (call.valid /\ call.cx # None) =>
        IF call.query.ok /\ call.query.frames # <<>>
        THEN /\ Len(call.out) = Len(call.query.frames)
             /\ \A k \in 1 .. Len(call.out) :
                   call.out[k] = FrameSymbol(call.svma, call.query.frames[k])
        ELSE call.out = SymtabSearch(call.cx[1], call.svma)

\* The interpreter produced one frame and then failed with a frame still to
\* come: that one frame was delivered and nothing else.
C14_Witness ==
    /\ call.valid /\ call.cx # None
    /\ call.query.ok /\ call.query.fails
    /\ Len(call.query.frames) = 1 /\ call.query.rest # <<>>
    /\ Len(call.out) = 1 /\ call.out[1].variant = "Frame"

\* C15: clear_symbol_cache() leaves the mapping entry list empty and the
\* library inventory (every library's path, segments and bias, in their
\* order) as it was before the call; a clear that is the first call to touch
\* the cache finds no inventory yet and leaves the one just enumerated.
C15_ClearKeepsInventory ==
    [][ (~ResolveStep) =>
            /\ mappings' = <<>>
            /\ cache_some' /\ ~crashed'
            /\ libraries' = (IF cache_some THEN libraries ELSE loaded) ]_vars

\* A clear emptied a full cache whose front entry the last resolve had used,
\* and the inventory is the one enumerated.
C15_Witness ==
    /\ call.valid /\ call.cleared /\ call.cx # None
    /\ call.len_before = MAPPINGS_CACHE_SIZE
    /\ mappings = <<>>
    /\ Len(libraries) > MAPPINGS_CACHE_SIZE /\ libraries = loaded

\* C17: a resolve call that obtains no Context, because the translation
\* finds no library or because building the mapping fails, leaves the cache
\* entries as they were: none evicted, inserted or moved, at capacity too.
C17_NoContextNoChange ==
    [][ (ResolveStep /\ call'.tag # "Panic" /\ call'.cx = None)
            => mappings' = mappings ]_vars

\* Building the mapping failed on a full cache, which is still full.
C17_Witness ==
    /\ call.valid /\ ~call.cleared
    /\ call.tag = "Some" /\ call.cx = None
    /\ call.len_before = MAPPINGS_CACHE_SIZE
    /\ Len(mappings) = MAPPINGS_CACHE_SIZE

\* C12 as stated: once building the context of a library has failed, that
\* library yields zero callbacks for every address within it on every later
\* resolve call, until clear() is called.
C12_FailedStaysSilent ==
    [][ (ResolveStep /\ call'.tag = "Some" /\ call'.lib \in failed)
            => call'.out = <<>> ]_vars

\* C12 as amended: once building the context of a library has failed, that
\* library yields zero callbacks for every address within it on every later
\* resolve call for as long as its file stays unusable, until clear() is
\* called; the failure is not recorded, so a call made after the file was
\* put right builds the mapping and delivers symbols.
C12_FailedSilentWhileUnusable ==
    [][ (ResolveStep /\ call'.tag = "Some" /\ call'.lib \in failed
            /\ libraries[call'.lib].name \notin restored)
            => (call'.cx = None /\ call'.out = <<>> /\ mappings' = mappings) ]_vars

\* A build that had failed before failed again, on a cache holding every
\* other library, and no callback was made.
C12_Witness ==
    /\ call.valid /\ ~call.cleared
    /\ call.tag = "Some" /\ call.cx = None /\ call.out = <<>>
    /\ call.lib \in failed
    /\ call.again = "no"
    /\ call.len_before = Len(libraries) - 1
    /\ restored = {}

\* C16: the library inventory is enumerated once, by the first call that
\* touches the cache, and never scanned again or changed: every later call,
\* resolve or clear, works on the same libraries, segments and biases,
\* whatever the loader has loaded since.
C16_InventoryEnumeratedOnce ==
    [][ /\ cache_some => (cache_some' /\ libraries' = libraries)
        /\ (~cache_some /\ cache_some') => libraries' = loaded ]_vars

\* A library was loaded after the inventory was enumerated, and an address
\* inside it was resolved against the inventory without it: no library found.
C16_Witness ==
    /\ cache_some /\ libraries = GoneInventory /\ loaded # libraries
    /\ call.valid /\ ~call.cleared
    /\ WrappedIn(LateLibrary, call.addr)
    /\ call.tag = "None" /\ call.out = <<>>

\* C18: with calls serialized and not reentrant, from the moment a resolve
\* call holds a Context until its last callback has returned, the cache
\* entry the Context borrows from (the Mapping with its memory map) is in the
\* cache at position 0 and the cache is not changed; a symbol is handed to
\* the callback only in that span, from the Context of that entry.
C18_ContextEntryStaysAtFront ==
    /\ [] ( pc = "frames" =>
              /\ call.cx # None /\ mappings # <<>>
              /\ mappings[1].idx = call.lib
              /\ mappings[1].mapping.cx = call.cx[1]
              /\ mappings[1].mapping.map.file = libraries[call.lib].name )
    /\ [][ /\ pc = "frames" => (mappings' = mappings /\ call'.cx = call.cx)
           /\ (call'.out # call.out /\ call'.out # <<>>) => pc = "frames" ]_vars

\* Between the two callbacks of one call: the Context's entry was built into
\* a full cache, evicting the tail, and is at the front while the second
\* frame is still to be handed over.
C18_Witness ==
    /\ pc = "frames"
    /\ Len(call.out) = 1 /\ Len(pending) = 1
    /\ call.built /\ call.len_before = MAPPINGS_CACHE_SIZE
    /\ mappings[1].idx = call.lib

\* The segment commands among an image's load commands.
SegmentCommands(image) ==
    SelectSeq(image.header[1].commands[1], LAMBDA c : c.kind = "segment")

\* The failures of an individual image: a null name or header, an unknown
\* magic, load commands that cannot be read, no segment, no __TEXT segment.
ImageFails(image) ==
    \/ image.name = None
    \/ image.header = None
    \/ image.header[1].magic \notin {"MH_MAGIC", "MH_MAGIC_64"}
    \/ image.header[1].commands = None
    \/ \E k \in 1 .. Len(image.header[1].commands[1]) :
          image.header[1].commands[1][k].kind \in {"unreadable", "bad_segment"}
    \/ \A k \in 1 .. Len(SegmentCommands(image)) :
          SegmentCommands(image)[k].name # "__TEXT"

\* C19, for what it says of the scan: during the Mach-O enumeration a failure
\* for an individual image (a null name or header, an unknown magic,
\* unreadable load commands, no segment or no __TEXT segment) never aborts
\* the scan: native_library returns for that image, the loop goes on to the
\* other images and native_libraries returns.
C19_FailedImageNeverAborts ==
    /\ (last.valid /\ ImageFails(last.image)) =>
            (last.tag # "Panic" /\ scan # "panicked")
    /\ scan = "returned" => next_image = Len(images)

\* The image is read to the end: name, header and magic are there, every
\* command is read and every segment's address and size fit usize.
ImageReads(image) ==
    /\ image.name # None /\ image.header # None
    /\ image.header[1].magic \in {"MH_MAGIC", "MH_MAGIC_64"}
    /\ image.header[1].commands # None
    /\ \A k \in 1 .. Len(image.header[1].commands[1]) :
          LET c == image.header[1].commands[1][k]
          IN  /\ c.kind \in {"segment", "other"}
              /\ c.kind = "segment" => (c.vmaddr < Modulus /\ c.vmsize < Modulus)

\* The segment commands named __TEXT, in load-command order.
TextCommands(image) ==
    SelectSeq(SegmentCommands(image), LAMBDA c : c.name = "__TEXT")

\* Some segment named __TEXT has on-disk offset 0 and a nonzero size.
TextAtFileStart(image) ==
    \E k \in 1 .. Len(TextCommands(image)) :
        TextCommands(image)[k].fileoff = 0 /\ TextCommands(image)[k].filesize > 0

\* C20, on the images that are read to the end, have a __TEXT segment, and
\* whose corrected addresses and bias stay inside the machine word: when no
\* segment named __TEXT has on-disk offset 0 with nonzero size, the
\* correction is the stated address of the first __TEXT segment in
\* load-command order, subtracted from the stated address of every segment
\* and added to the bias; when some __TEXT segment has offset 0 and nonzero
\* size, the segments are as stated and the bias is the slide dyld reports.
C20_FirstTextCorrection ==
    (last.valid /\ ImageReads(last.image) /\ TextCommands(last.image) # <<>>) =>
        LET image  == last.image
            segs   == SegmentCommands(image)
            adjust == IF TextAtFileStart(image) THEN 0
                      ELSE TextCommands(image)[1].vmaddr
        IN  ( /\ \A k \in 1 .. Len(segs) : segs[k].vmaddr >= adjust
              /\ image.slide + adjust < Modulus )
            => /\ last.tag = "Some"
               /\ last.lib.name = image.name[1]
               /\ last.lib.bias = image.slide + adjust
               /\ Len(last.lib.segments) = Len(segs)
               /\ \A k \in 1 .. Len(segs) :
                     last.lib.segments[k] =
                        LibrarySegment(segs[k].vmaddr - adjust, segs[k].vmsize)

Take(seq, n) == SubSeq(seq, 1, IF Len(seq) < n THEN Len(seq) ELSE n)

\* The library indices of the cache entries, in cache order.
Indices(maps) == [k \in 1 .. Len(maps) |-> maps[k].idx]

\* The cache entries of the libraries other than lib, in cache order.
Others(maps, lib) == SelectSeq(maps, LAMBDA e : e.idx # lib)

\* C22: the mapping sequence behaves as a reference LRU of the fixed
\* capacity: in every reachable state it lists, most recent first, the
\* distinct library indices of the most recent successful mapping_for_lib
\* calls since the last clear, cut at the capacity; and a hit or a miss
\* changes the relative order of no entry other than the one accessed: the
\* other entries stay as they were, in their order, but for the tail a miss
\* on a full cache evicts.
C22_ReferenceLru ==
    /\ [] ( Indices(mappings) = Take(recent, MAPPINGS_CACHE_SIZE) )
    /\ [][ (ResolveStep /\ call'.cx # None) =>
              LET before == Others(mappings, call'.lib)
                  after  == Others(mappings', call'.lib)
              IN  /\ after = Take(before, Len(after))
                  /\ Len(after) =
                        (IF call'.built /\ Len(mappings) = MAPPINGS_CACHE_SIZE
                         THEN Len(before) - 1 ELSE Len(before))
                  /\ Len(mappings') = Len(after) + 1 ]_vars

\* Five libraries were used since the last clear, so one was evicted, and the
\* last call was a hit that found its library behind two others.
C22_Witness ==
    /\ Len(recent) = MAPPINGS_CACHE_SIZE + 1
    /\ call.valid /\ ~call.cleared /\ call.cx # None
    /\ call.found = 3 /\ ~call.built
    /\ Indices(mappings) = Take(recent, MAPPINGS_CACHE_SIZE)

====
